---- MODULE Spec2Model ----
(***************************************************************************)
(* Telemetry storage of the EMS schema (db/schema.sql): the unit registry  *)
(* rows, the partitioned raw telemetry table with its AFTER INSERT         *)
(* trigger, the rollup tables, the alerts table, and the two helper        *)
(* functions create_monthly_partition() and cleanup_old_telemetry().       *)
(*                                                                         *)
(* Time: a TIMESTAMP is a number of minutes since 2025-01-01 00:00, a DATE *)
(* a number of days since 2025-01-01.  A nullable column holds <<>> for    *)
(* NULL and <<v>> for the value v.                                         *)
(***************************************************************************)
EXTENDS Integers, FiniteSets, Sequences, TLC

VARIABLES
    hvac_units,             \* pk_serial_number -> row of hvac_units
    hvac_telemetry,         \* set of raw rows (all partitions together)
    pg_class,               \* the partitions of hvac_telemetry: relname and range
    hvac_telemetry_hourly,  \* set of hourly rollup rows
    hvac_telemetry_daily,   \* set of daily rollup rows
    alerts,                 \* set of alert rows
    next_alert_id,          \* stands for uuid_generate_v4(): a fresh id per row
    now,                    \* NOW(), in minutes
    job,                    \* session -> position inside create_monthly_partition()
    last,                   \* the last statement run, its key and how it ended
    triggered               \* history: the (rule, unit, timestamp) keys whose alert was attempted

vars == <<hvac_units, hvac_telemetry, pg_class, hvac_telemetry_hourly,
          hvac_telemetry_daily, alerts, next_alert_id, now, job, last, triggered>>

-----------------------------------------------------------------------------
(* Bounds of the model *)

MaxSampleDay == 2   \* readings are stamped at midnight of days 0, 35, 70, ...
MaxMinute == 1      \* ... and at minutes 1..MaxMinute of day 0
MaxRows == 2        \* raw rows stored at any one time
MaxAlerts == 2      \* alert rows ever inserted
MaxClock == 8       \* the clock is advanced at most this many times
MaxJobs == 2        \* sessions that may run create_monthly_partition()

(* Program constants *)

RawRetentionDays == 30
HourlyRetentionDays == 90

-----------------------------------------------------------------------------
(* Dates *)

NULL == <<>>

IsLeap(y) == (y % 4 = 0 /\ y % 100 # 0) \/ y % 400 = 0

DaysInMonth(y, m) ==
    IF m = 2 THEN (IF IsLeap(y) THEN 29 ELSE 28)
    ELSE IF m \in {4, 6, 9, 11} THEN 30 ELSE 31

\* a month is counted from 0 = 2025-01
YearOfMonth(i) == 2025 + (i \div 12)
MonthOfYear(i) == (i % 12) + 1

RECURSIVE FirstDayOfMonth(_)
FirstDayOfMonth(i) ==
    IF i = 0 THEN 0
    ELSE FirstDayOfMonth(i - 1) + DaysInMonth(YearOfMonth(i - 1), MonthOfYear(i - 1))

\* the calendar of 2025 and 2026, computed once
Calendar == [i \in 0..24 |-> FirstDayOfMonth(i)]

MonthStart(i) == Calendar[i]

RECURSIVE MonthIndexFrom(_, _)
MonthIndexFrom(d, i) == IF d < MonthStart(i + 1) THEN i ELSE MonthIndexFrom(d, i + 1)

MonthIndex(d) == MonthIndexFrom(d, 0)

Min(a, b) == IF a <= b THEN a ELSE b

\* d + INTERVAL '1 month': same day of the next month, clamped to its length
AddOneMonth(d) ==
    LET i == MonthIndex(d)
        dom == d - MonthStart(i)
        len == MonthStart(i + 2) - MonthStart(i + 1)
    IN  MonthStart(i + 1) + Min(dom, len - 1)

DateTruncMonth(d) == MonthStart(MonthIndex(d))

\* TO_CHAR(d, 'YYYY_MM') appended to 'hvac_telemetry_'
PartitionName(d) == <<"hvac_telemetry", YearOfMonth(MonthIndex(d)), MonthOfYear(MonthIndex(d))>>

\* a DATE used where a TIMESTAMP is expected: midnight of that day
DateToTimestamp(d) == d * 1440

CurrentDate == now \div 1440

Days(n) == n * 1440

-----------------------------------------------------------------------------
(* Tables *)

Registered == {"U1", "U2"}
Serials == Registered \cup {"U9"}
Rules == {"R1"}
RuleIds == Rules \cup {"R9"}

ReadingTimes == {Days(35 * k) : k \in 0..MaxSampleDay} \cup 1..MaxMinute
AlertTimes == 0..MaxMinute
AmbientTemps == {125, 130}
\* the (ambient_temp, uptime_days) pairs a reading is drawn with
FieldValues == {<<125, 1>>, <<130, 2>>}

Readings ==
    {[pk_fk_serial_number |-> u, pk_timestamp |-> t,
      ambient_temp |-> f[1], uptime_days |-> f[2]] :
        u \in Serials, t \in ReadingTimes, f \in FieldValues}

\* the readings a specification draws from when the field values do not matter
SampleReading(serial, ts) ==
    [pk_fk_serial_number |-> serial, pk_timestamp |-> ts,
     ambient_temp |-> 125, uptime_days |-> 1]

AlertReadings == {SampleReading(u, 0) : u \in Serials}

\* readings stamped after the two partitions the schema creates
PartitionReadings == {SampleReading("U1", Days(35 * k)) : k \in 2..MaxSampleDay}

\* readings stamped inside the two partitions the schema creates
RetentionReadings ==
    {SampleReading("U1", t) : t \in {x \in ReadingTimes : x < DateToTimestamp(MonthStart(2))}}

\* readings of one unit within one hour, with differing field values
RollupReadings ==
    {[pk_fk_serial_number |-> "U1", pk_timestamp |-> t,
      ambient_temp |-> f[1], uptime_days |-> f[2]] :
        t \in 0..MaxMinute, f \in FieldValues}

Partition(first) ==
    [relname |-> PartitionName(first),
     from |-> DateToTimestamp(first),
     to |-> DateToTimestamp(AddOneMonth(first))]

InitialPartitions == {Partition(MonthStart(0)), Partition(MonthStart(1))}

UnitRow(active) ==
    [current_state |-> NULL, last_telemetry_at |-> NULL,
     is_active |-> active, uptime_days |-> 0, updated_at |-> <<0>>]

Idle == [pc |-> "idle"]

Init ==
    /\ hvac_units = [u \in Registered |-> UnitRow(u # "U2")]
    /\ hvac_telemetry = {}
    /\ pg_class = InitialPartitions
    /\ hvac_telemetry_hourly = {}
    /\ hvac_telemetry_daily = {}
    /\ alerts = {}
    /\ next_alert_id = 1
    /\ now = 0
    /\ job = [s \in 1..MaxJobs |-> Idle]
    /\ last = [op |-> "init", outcome |-> "ok", key |-> <<>>]
    /\ triggered = {}

-----------------------------------------------------------------------------
(* INSERT INTO hvac_telemetry, with its AFTER INSERT trigger; new is the row NEW *)

\* jsonb - key
JsonMinus(j, key) == [k \in DOMAIN j \ {key} |-> j[k]]

\* row_to_json(NEW)::jsonb - 'pk_fk_serial_number' - 'pk_timestamp'
StateOf(new) == JsonMinus(JsonMinus(new, "pk_fk_serial_number"), "pk_timestamp")

\* a trigger that fills the snapshot of a unit only while it has none
update_unit_current_state_FirstOnly(units, new) ==
    [u \in DOMAIN units |->
        IF u = new.pk_fk_serial_number /\ units[u].last_telemetry_at = NULL
        THEN [units[u] EXCEPT
                !.current_state = <<StateOf(new)>>,
                !.last_telemetry_at = <<new.pk_timestamp>>,
                !.uptime_days = new.uptime_days,
                !.updated_at = <<now>>]
        ELSE units[u]]

\* a trigger whose UPDATE has lost its WHERE clause
update_unit_current_state_AllUnits(units, new) ==
    [u \in DOMAIN units |->
        [units[u] EXCEPT
            !.current_state = <<StateOf(new)>>,
            !.last_telemetry_at = <<new.pk_timestamp>>,
            !.uptime_days = new.uptime_days,
            !.updated_at = <<now>>]]

\* a trigger that does not copy the uptime counter
update_unit_current_state_NoUptime(units, new) ==
    [u \in DOMAIN units |->
        IF u = new.pk_fk_serial_number
        THEN [units[u] EXCEPT
                !.current_state = <<StateOf(new)>>,
                !.last_telemetry_at = <<new.pk_timestamp>>,
                !.updated_at = <<now>>]
        ELSE units[u]]

\* the trigger's UPDATE: every unit row WHERE pk_serial_number = NEW.pk_fk_serial_number
update_unit_current_state(units, new) ==
    [u \in DOMAIN units |->
        IF u = new.pk_fk_serial_number
        THEN [units[u] EXCEPT
                !.current_state = <<StateOf(new)>>,
                !.last_telemetry_at = <<new.pk_timestamp>>,
                !.uptime_days = new.uptime_days,
                !.updated_at = <<now>>]
        ELSE units[u]]

\* tuple routing of PARTITION BY RANGE (pk_timestamp)
HasPartition(ts) == \E p \in pg_class : p.from <= ts /\ ts < p.to

\* PRIMARY KEY (pk_fk_serial_number, pk_timestamp)
PrimaryKeyFree(new) ==
    \A r \in hvac_telemetry :
        ~(r.pk_fk_serial_number = new.pk_fk_serial_number
          /\ r.pk_timestamp = new.pk_timestamp)

\* REFERENCES hvac_units(pk_serial_number)
ForeignKeyHolds(new) == new.pk_fk_serial_number \in DOMAIN hvac_units

\* a raw table without its primary key
InsertOutcome_NoPrimaryKey(new, triggerFails) ==
    IF ~HasPartition(new.pk_timestamp) THEN "no_partition"
    ELSE IF ~ForeignKeyHolds(new) THEN "foreign_key_violation"
    ELSE IF triggerFails THEN "trigger_error"
    ELSE "ok"

\* a raw table without its reference to hvac_units
InsertOutcome_NoForeignKey(new, triggerFails) ==
    IF ~HasPartition(new.pk_timestamp) THEN "no_partition"
    ELSE IF ~PrimaryKeyFree(new) THEN "unique_violation"
    ELSE IF triggerFails THEN "trigger_error"
    ELSE "ok"

\* how the statement ends; triggerFails: the trigger's UPDATE raises
InsertOutcome(new, triggerFails) ==
    IF ~HasPartition(new.pk_timestamp) THEN "no_partition"
    ELSE IF ~PrimaryKeyFree(new) THEN "unique_violation"
    ELSE IF ~ForeignKeyHolds(new) THEN "foreign_key_violation"
    ELSE IF triggerFails THEN "trigger_error"
    ELSE "ok"

KeyOf(new) == <<new.pk_fk_serial_number, new.pk_timestamp>>

InsertReading(new, triggerFails) ==
    LET outcome == InsertOutcome(new, triggerFails) IN
    /\ outcome = "ok" => Cardinality(hvac_telemetry) < MaxRows
    /\ last' = [op |-> "insert", outcome |-> outcome, key |-> KeyOf(new)]
    /\ IF outcome = "ok"
       THEN /\ hvac_telemetry' = hvac_telemetry \cup {new}
            /\ hvac_units' = update_unit_current_state(hvac_units, new)
       ELSE \* an error aborts the statement: the insert and the trigger's update together
            UNCHANGED <<hvac_telemetry, hvac_units>>
    /\ UNCHANGED <<pg_class, hvac_telemetry_hourly, hvac_telemetry_daily,
                   alerts, next_alert_id, now, job, triggered>>

Ingest == \E new \in Readings : \E triggerFails \in BOOLEAN : InsertReading(new, triggerFails)

IngestDuringAlerts == \E new \in AlertReadings : InsertReading(new, FALSE)

IngestDuringPartition == \E new \in PartitionReadings : InsertReading(new, FALSE)

IngestDuringRetention == \E new \in RetentionReadings : InsertReading(new, FALSE)

IngestDuringRollup == \E new \in RollupReadings : InsertReading(new, FALSE)

-----------------------------------------------------------------------------
(* INSERT INTO alerts *)

AlertKey(a) == <<a.fk_rule_id, a.fk_serial_number, a.triggered_at>>

\* UNIQUE(fk_rule_id, fk_serial_number, triggered_at)
AlertKeyFree(a) == \A b \in alerts : AlertKey(b) # AlertKey(a)

\* REFERENCES alert_rules(id), REFERENCES hvac_units(pk_serial_number)
AlertForeignKeysHold(a) == a.fk_rule_id \in Rules /\ a.fk_serial_number \in DOMAIN hvac_units

\* an alerts table without its UNIQUE constraint
AlertOutcome_NoUnique(a) ==
    IF ~AlertForeignKeysHold(a) THEN "foreign_key_violation" ELSE "ok"

AlertOutcome(a) ==
    IF ~AlertKeyFree(a) THEN "unique_violation"
    ELSE IF ~AlertForeignKeysHold(a) THEN "foreign_key_violation"
    ELSE "ok"

InsertAlert(rule, serial, ts, value) ==
    LET a == [id |-> next_alert_id, fk_rule_id |-> rule, fk_serial_number |-> serial,
              triggered_at |-> ts, triggered_value |-> value]
        outcome == AlertOutcome(a)
    IN
    /\ outcome = "ok" => next_alert_id <= MaxAlerts
    /\ last' = [op |-> "insert_alert", outcome |-> outcome, key |-> AlertKey(a)]
    /\ IF outcome = "ok"
       THEN alerts' = alerts \cup {a} /\ next_alert_id' = next_alert_id + 1
       ELSE UNCHANGED <<alerts, next_alert_id>>
    /\ triggered' = IF AlertForeignKeysHold(a) THEN triggered \cup {AlertKey(a)} ELSE triggered
    /\ UNCHANGED <<hvac_units, hvac_telemetry, pg_class, hvac_telemetry_hourly,
                   hvac_telemetry_daily, now, job>>

\* the one alert of the retention runs
AlertDuringRetention == InsertAlert("R1", "U1", 0, 125)

Alert ==
    \E rule \in RuleIds, serial \in Serials, ts \in AlertTimes, value \in AmbientTemps :
        InsertAlert(rule, serial, ts, value)

-----------------------------------------------------------------------------
(* create_monthly_partition(), one session s at a time or several overlapping *)

RelationExists(name) == \E p \in pg_class : p.relname = name

Overlaps(p) == \E q \in pg_class : p.from < q.to /\ q.from < p.to

\* the function without its IF NOT EXISTS test
create_monthly_partition_Unchecked(s) ==
    LET start_date == DateTruncMonth(AddOneMonth(CurrentDate))
        end_date == AddOneMonth(start_date)
        partition_name == PartitionName(start_date)
    IN
    /\ job[s].pc = "idle"
    /\ job' = [job EXCEPT ![s] =
                 [pc |-> "create",
                  partition |-> [relname |-> partition_name,
                                 from |-> DateToTimestamp(start_date),
                                 to |-> DateToTimestamp(end_date)]]]
    /\ last' = [op |-> "create_monthly_partition", outcome |-> "absent",
                key |-> partition_name]
    /\ UNCHANGED <<hvac_units, hvac_telemetry, pg_class, hvac_telemetry_hourly,
                   hvac_telemetry_daily, alerts, next_alert_id, now, triggered>>

\* the function with start_date taken in the current month
create_monthly_partition_CurrentMonth(s) ==
    LET start_date == DateTruncMonth(CurrentDate)
        end_date == AddOneMonth(start_date)
        partition_name == PartitionName(start_date)
    IN
    /\ job[s].pc = "idle"
    /\ IF ~RelationExists(partition_name)
       THEN /\ job' = [job EXCEPT ![s] =
                         [pc |-> "create",
                          partition |-> [relname |-> partition_name,
                                         from |-> DateToTimestamp(start_date),
                                         to |-> DateToTimestamp(end_date)]]]
            /\ last' = [op |-> "create_monthly_partition", outcome |-> "absent",
                        key |-> partition_name]
       ELSE /\ job' = job
            /\ last' = [op |-> "create_monthly_partition", outcome |-> "exists",
                        key |-> partition_name]
    /\ UNCHANGED <<hvac_units, hvac_telemetry, pg_class, hvac_telemetry_hourly,
                   hvac_telemetry_daily, alerts, next_alert_id, now, triggered>>

\* DECLARE .. BEGIN, up to the IF NOT EXISTS test
create_monthly_partition(s) ==
    LET start_date == DateTruncMonth(AddOneMonth(CurrentDate))
        end_date == AddOneMonth(start_date)
        partition_name == PartitionName(start_date)
    IN
    /\ job[s].pc = "idle"
    /\ IF ~RelationExists(partition_name)
       THEN /\ job' = [job EXCEPT ![s] =
                         [pc |-> "create",
                          partition |-> [relname |-> partition_name,
                                         from |-> DateToTimestamp(start_date),
                                         to |-> DateToTimestamp(end_date)]]]
            /\ last' = [op |-> "create_monthly_partition", outcome |-> "absent",
                        key |-> partition_name]
       ELSE /\ job' = job
            /\ last' = [op |-> "create_monthly_partition", outcome |-> "exists",
                        key |-> partition_name]
    /\ UNCHANGED <<hvac_units, hvac_telemetry, pg_class, hvac_telemetry_hourly,
                   hvac_telemetry_daily, alerts, next_alert_id, now, triggered>>

\* EXECUTE format('CREATE TABLE %I PARTITION OF hvac_telemetry ...')
ExecuteCreateTable(s) ==
    /\ job[s].pc = "create"
    /\ LET p == job[s].partition IN
       IF RelationExists(p.relname) \/ Overlaps(p)
       THEN /\ pg_class' = pg_class
            /\ last' = [op |-> "create_table", outcome |-> "duplicate_table",
                        key |-> p.relname]
       ELSE /\ pg_class' = pg_class \cup {p}
            /\ last' = [op |-> "create_table", outcome |-> "created", key |-> p.relname]
    /\ job' = [job EXCEPT ![s] = Idle]
    /\ UNCHANGED <<hvac_units, hvac_telemetry, hvac_telemetry_hourly,
                   hvac_telemetry_daily, alerts, next_alert_id, now, triggered>>

PartitionJob == \E s \in 1..MaxJobs : create_monthly_partition(s)

CreateTable == \E s \in 1..MaxJobs : ExecuteCreateTable(s)

-----------------------------------------------------------------------------
(* cleanup_old_telemetry() and the clock *)

\* a cleanup that applies the raw retention to the hourly rollups too
cleanup_old_telemetry_HourlyAsRaw ==
    /\ hvac_telemetry' =
          {r \in hvac_telemetry : ~(r.pk_timestamp < now - Days(RawRetentionDays))}
    /\ hvac_telemetry_hourly' =
          {h \in hvac_telemetry_hourly : ~(h.pk_hour < now - Days(RawRetentionDays))}
    /\ last' = [op |-> "cleanup", outcome |-> "ok", key |-> <<now>>]
    /\ UNCHANGED <<hvac_units, pg_class, hvac_telemetry_daily, alerts, next_alert_id,
                   now, job, triggered>>

\* a cleanup whose comparisons include the cut-off itself
cleanup_old_telemetry_Inclusive ==
    /\ hvac_telemetry' =
          {r \in hvac_telemetry : ~(r.pk_timestamp <= now - Days(RawRetentionDays))}
    /\ hvac_telemetry_hourly' =
          {h \in hvac_telemetry_hourly : ~(h.pk_hour <= now - Days(HourlyRetentionDays))}
    /\ last' = [op |-> "cleanup", outcome |-> "ok", key |-> <<now>>]
    /\ UNCHANGED <<hvac_units, pg_class, hvac_telemetry_daily, alerts, next_alert_id,
                   now, job, triggered>>

cleanup_old_telemetry ==
    /\ hvac_telemetry' =
          {r \in hvac_telemetry : ~(r.pk_timestamp < now - Days(RawRetentionDays))}
    /\ hvac_telemetry_hourly' =
          {h \in hvac_telemetry_hourly : ~(h.pk_hour < now - Days(HourlyRetentionDays))}
    /\ last' = [op |-> "cleanup", outcome |-> "ok", key |-> <<now>>]
    /\ UNCHANGED <<hvac_units, pg_class, hvac_telemetry_daily, alerts, next_alert_id,
                   now, job, triggered>>

\* NOW() and CURRENT_DATE are those of the transaction's start: a call of
\* create_monthly_partition() sees one date, so the clock stands still during it
AdvanceClock ==
    /\ now < Days(15 * MaxClock)
    /\ \A s \in DOMAIN job : job[s].pc = "idle"
    /\ now' = now + Days(15)
    /\ last' = [op |-> "clock", outcome |-> "ok", key |-> <<now'>>]
    /\ UNCHANGED <<hvac_units, hvac_telemetry, pg_class, hvac_telemetry_hourly,
                   hvac_telemetry_daily, alerts, next_alert_id, job, triggered>>

-----------------------------------------------------------------------------
(* The rollup engine: hourly and daily summaries of ambient_temp *)

DateTruncHour(ts) == (ts \div 60) * 60
DateOf(ts) == ts \div 1440

\* the sum of f over the rows of S, f a function on them
RECURSIVE SumOf(_, _)
SumOf(S, f) ==
    IF S = {} THEN 0
    ELSE LET x == CHOOSE y \in S : TRUE IN f[x] + SumOf(S \ {x}, f)

MinOf(V) == CHOOSE v \in V : \A w \in V : v <= w
MaxOf(V) == CHOOSE v \in V : \A w \in V : w <= v

Temp(rows) == [r \in rows |-> r.ambient_temp]

\* {field_name: {min: x, max: y, avg: z}}; avg in hundredths
RawMetrics(rows) ==
    [ambient_temp |->
        [min |-> MinOf({r.ambient_temp : r \in rows}),
         max |-> MaxOf({r.ambient_temp : r \in rows}),
         avg |-> (100 * SumOf(rows, Temp(rows))) \div Cardinality(rows)]]

HourRows(u, h) ==
    {r \in hvac_telemetry : r.pk_fk_serial_number = u /\ DateTruncHour(r.pk_timestamp) = h}

DayRows(u, d) ==
    {r \in hvac_telemetry : r.pk_fk_serial_number = u /\ DateOf(r.pk_timestamp) = d}

DayHours(u, d) ==
    {h \in hvac_telemetry_hourly : h.pk_fk_serial_number = u /\ DateOf(h.pk_hour) = d}

WeightedAvg(hours) == [h \in hours |-> h.metrics.ambient_temp.avg * h.sample_count]
Samples(hours) == [h \in hours |-> h.sample_count]

HourlyMetrics(hours) ==
    [ambient_temp |->
        [min |-> MinOf({h.metrics.ambient_temp.min : h \in hours}),
         max |-> MaxOf({h.metrics.ambient_temp.max : h \in hours}),
         avg |-> SumOf(hours, WeightedAvg(hours)) \div SumOf(hours, Samples(hours))]]

\* the row of the bucket, if the bucket has been rolled up
HourlyRowsAt(u, h) ==
    {x \in hvac_telemetry_hourly : x.pk_fk_serial_number = u /\ x.pk_hour = h}

\* a rollup that adds its sample count to the row it finds
RollupHourly_Accumulate(u, h) ==
    LET rows == HourRows(u, h)
        found == HourlyRowsAt(u, h)
        row == [pk_fk_serial_number |-> u, pk_hour |-> h,
                metrics |-> RawMetrics(rows),
                sample_count |-> Cardinality(rows) + SumOf(found, Samples(found))]
    IN
    /\ h + 60 <= now
    /\ rows # {}
    /\ hvac_telemetry_hourly' = (hvac_telemetry_hourly \ found) \cup {row}
    /\ last' = [op |-> "rollup_hourly",
                outcome |-> IF found = {} THEN "inserted" ELSE "updated",
                key |-> <<u, h>>]
    /\ UNCHANGED <<hvac_units, hvac_telemetry, pg_class, hvac_telemetry_daily, alerts,
                   next_alert_id, now, job, triggered>>

\* write/overwrite the hourly row of a completed (unit, hour) that has raw readings
RollupHourly(u, h) ==
    LET rows == HourRows(u, h)
        found == HourlyRowsAt(u, h)
        row == [pk_fk_serial_number |-> u, pk_hour |-> h,
                metrics |-> RawMetrics(rows), sample_count |-> Cardinality(rows)]
    IN
    /\ h + 60 <= now
    /\ rows # {}
    /\ hvac_telemetry_hourly' = (hvac_telemetry_hourly \ found) \cup {row}
    /\ last' = [op |-> "rollup_hourly",
                outcome |-> IF found = {} THEN "inserted" ELSE "updated",
                key |-> <<u, h>>]
    /\ UNCHANGED <<hvac_units, hvac_telemetry, pg_class, hvac_telemetry_daily, alerts,
                   next_alert_id, now, job, triggered>>

RollupDaily(u, d) ==
    LET rows == DayRows(u, d)
        hours == DayHours(u, d)
        row == IF rows # {}
               THEN [pk_fk_serial_number |-> u, pk_date |-> d,
                     metrics |-> RawMetrics(rows), sample_count |-> Cardinality(rows)]
               ELSE [pk_fk_serial_number |-> u, pk_date |-> d,
                     metrics |-> HourlyMetrics(hours),
                     sample_count |-> SumOf(hours, Samples(hours))]
    IN
    /\ Days(d + 1) <= now
    /\ rows # {} \/ hours # {}
    /\ hvac_telemetry_daily' =
          {x \in hvac_telemetry_daily : ~(x.pk_fk_serial_number = u /\ x.pk_date = d)}
              \cup {row}
    /\ last' = [op |-> "rollup_daily", outcome |-> "ok", key |-> <<u, d>>]
    /\ UNCHANGED <<hvac_units, hvac_telemetry, pg_class, hvac_telemetry_hourly, alerts,
                   next_alert_id, now, job, triggered>>

HourlyRollup ==
    \E u \in Registered, h \in {DateTruncHour(t) : t \in ReadingTimes} : RollupHourly(u, h)

DailyRollup ==
    \E u \in Registered, d \in {DateOf(t) : t \in ReadingTimes} : RollupDaily(u, d)

-----------------------------------------------------------------------------
(* Specifications *)

\* ingestion, with the partitions as created by the schema
Next == Ingest

Spec == Init /\ [][Next]_vars

\* alert rows, next to ingestion
NextAlerts == Alert \/ IngestDuringAlerts

SpecAlerts == Init /\ [][NextAlerts]_vars

\* the partition job, run by overlapping sessions while the clock advances
NextPartition == PartitionJob \/ CreateTable \/ AdvanceClock \/ IngestDuringPartition

SpecPartition == Init /\ [][NextPartition]_vars

\* rollup and retention
NextRetention ==
    \/ IngestDuringRetention
    \/ AlertDuringRetention
    \/ HourlyRollup
    \/ DailyRollup
    \/ AdvanceClock
    \/ cleanup_old_telemetry

SpecRetention == Init /\ [][NextRetention]_vars

\* the hourly rollup, run and re-run while readings arrive
NextRollup == IngestDuringRollup \/ HourlyRollup \/ AdvanceClock

SpecRollup == Init /\ [][NextRollup]_vars

-----------------------------------------------------------------------------
(* Properties *)

Stored(key) == \E r \in hvac_telemetry : KeyOf(r) = key
RowAt(key) == CHOOSE r \in hvac_telemetry : KeyOf(r) = key
RowsOf(u) == {r \in hvac_telemetry : r.pk_fk_serial_number = u}
LatestOf(u) == CHOOSE r \in RowsOf(u) : \A q \in RowsOf(u) : q.pk_timestamp <= r.pk_timestamp
ShowsReading(u, r) ==
    /\ hvac_units[u].current_state = <<StateOf(r)>>
    /\ hvac_units[u].last_telemetry_at = <<r.pk_timestamp>>

\* C1: of two accepted readings of one unit, the one with the later timestamp
\* is the unit's snapshot and last-telemetry timestamp, whichever completed last.
C1_LaterTimestampWins ==
    \A u \in DOMAIN hvac_units :
        \A r1, r2 \in RowsOf(u) :
            (r1.pk_timestamp < r2.pk_timestamp /\ r2 = LatestOf(u)) => ShowsReading(u, r2)

\* C2: a reading r2 accepted after an earlier-stamped reading r1 of the same unit
\* has completed leaves the unit showing r2's fields and r2's timestamp.
C2_LaterReadingProcessedLast ==
    (/\ last.op = "insert"
     /\ last.outcome = "ok"
     /\ \E r1 \in RowsOf(last.key[1]) : r1.pk_timestamp < last.key[2])
        => ShowsReading(last.key[1], RowAt(last.key))

C2_Witness ==
    /\ last.op = "insert"
    /\ last.outcome = "ok"
    /\ \E r1 \in RowsOf(last.key[1]) : r1.pk_timestamp < last.key[2]
    /\ hvac_units[last.key[1]].last_telemetry_at = <<last.key[2]>>

KeysUnique == \A r, q \in hvac_telemetry : KeyOf(r) = KeyOf(q) => r = q

\* C3: there is never a second raw row for a (unit, timestamp), and an insert
\* whose (unit, timestamp) is already stored changes no raw row and no unit row
\* (snapshot, last-telemetry timestamp, uptime counter).
C3_DuplicateIsNoOp ==
    [][/\ KeysUnique'
       /\ (last'.op = "insert" /\ Stored(last'.key))
            => (/\ last'.outcome = "unique_violation"
                /\ hvac_telemetry' = hvac_telemetry
                /\ hvac_units' = hvac_units)]_vars

C3_Witness ==
    /\ last.op = "insert"
    /\ last.outcome = "unique_violation"
    /\ Stored(last.key)
    /\ hvac_units[last.key[1]].current_state # NULL

\* C4: an insert for a serial that is not in hvac_units is rejected and stores
\* no raw row, changes no unit row and creates no alert.
C4_UnknownUnitRejected ==
    [][(last'.op = "insert" /\ last'.key[1] \notin DOMAIN hvac_units)
         => (/\ last'.outcome # "ok"
             /\ hvac_telemetry' = hvac_telemetry
             /\ hvac_units' = hvac_units
             /\ alerts' = alerts)]_vars

C4_Witness ==
    /\ last.op = "insert"
    /\ last.key[1] \notin DOMAIN hvac_units
    /\ last.outcome = "foreign_key_violation"
    /\ alerts # {}
    /\ hvac_telemetry # {}

\* C5: a unit with is_active = false gets no raw row and no snapshot.
C5_InactiveUnitRejected ==
    \A u \in DOMAIN hvac_units :
        ~hvac_units[u].is_active => (RowsOf(u) = {} /\ hvac_units[u].current_state = NULL)

RolledUp(r) ==
    \/ \E h \in hvac_telemetry_hourly :
          /\ h.pk_fk_serial_number = r.pk_fk_serial_number
          /\ h.pk_hour = DateTruncHour(r.pk_timestamp)
    \/ \E d \in hvac_telemetry_daily :
          /\ d.pk_fk_serial_number = r.pk_fk_serial_number
          /\ d.pk_date = DateOf(r.pk_timestamp)

\* C6: every raw row a cleanup run deletes has an hourly rollup of its (unit,
\* hour), or a daily rollup of its day, written before the run.
C6_DeletesOnlyRolledUp ==
    [][\A r \in hvac_telemetry \ hvac_telemetry' : RolledUp(r)]_vars

\* C7: a valid reading of a registered unit is never refused for want of a
\* partition, whether or not the partition job has run for its month.
C7_AppendEnsuresPartition ==
    (last.op = "insert" /\ last.key[1] \in DOMAIN hvac_units)
        => last.outcome # "no_partition"

AlertKeysUnique == \A a, b \in alerts : AlertKey(a) = AlertKey(b) => a = b
AlertsOf(rule, u) == {a \in alerts : a.fk_rule_id = rule /\ a.fk_serial_number = u}
TriggeredAt(rule, u) == {k[3] : k \in {x \in triggered : x[1] = rule /\ x[2] = u}}
HasAlert(key) == \E a \in alerts : AlertKey(a) = key

C9_RawRowSurvivesTriggerFailure ==
    (last.op = "insert" /\ last.outcome = "trigger_error") => Stored(last.key)

RelnamesUnique == \A p, q \in pg_class : p.relname = q.relname => p = q

\* C10: create_monthly_partition() called for a month whose partition exists
\* raises no error and leaves the partitions and the raw rows as they are, so
\* however often it runs in a month there is one partition of that name.
C10_EnsurePartitionIdempotent ==
    [][/\ RelnamesUnique'
       /\ (last'.op = "create_monthly_partition" /\ RelationExists(last'.key))
            => (/\ last'.outcome = "exists"
                /\ job' = job
                /\ pg_class' = pg_class
                /\ hvac_telemetry' = hvac_telemetry)]_vars

C10_Witness ==
    /\ last.op = "create_monthly_partition"
    /\ last.outcome = "exists"
    /\ \E p \in pg_class \ InitialPartitions : p.relname = last.key
    /\ hvac_telemetry # {}

\* the first day of the calendar month after the current date
NextMonthStart == MonthStart(MonthIndex(CurrentDate) + 1)

\* the months of the calendar that have begun and have no partition
BegunWithoutPartition ==
    {m \in 0..12 : MonthStart(m) <= CurrentDate /\ ~HasPartition(DateToTimestamp(MonthStart(m)))}

\* C16: a run of the partition job adds at most one partition, the one of the
\* calendar month after the current date, so a month that has begun without a
\* partition never gets one.
C16_OnlyTheUpcomingMonth ==
    [][/\ pg_class' # pg_class
            => \E p \in pg_class' \ pg_class :
                  /\ pg_class' = pg_class \cup {p}
                  /\ p.from = DateToTimestamp(NextMonthStart)
                  /\ p.to = DateToTimestamp(MonthStart(MonthIndex(CurrentDate) + 2))
                  /\ p.relname = PartitionName(NextMonthStart)
       /\ BegunWithoutPartition \subseteq BegunWithoutPartition']_vars

C16_Witness ==
    /\ last.op = "create_table"
    /\ last.outcome = "created"
    /\ \E m \in BegunWithoutPartition :
          \E p \in pg_class : p.from > DateToTimestamp(MonthStart(m))

\* C17: when two calls of create_monthly_partition() for one month both pass
\* the existence test before either creates the partition, neither fails and
\* the month has exactly one partition afterwards.
C17_OverlappingCallsSucceed ==
    /\ RelnamesUnique
    /\ last.op = "create_table" => last.outcome = "created"

RawCutoff == now - Days(RawRetentionDays)
HourlyCutoff == now - Days(HourlyRetentionDays)

\* C11: a cleanup run leaves every daily rollup, every hourly rollup that is
\* not older than 90 days, every unit row and every alert as they were, also
\* when it deletes the raw rows an hourly rollup summarises.
C11_CleanupFrame ==
    [][last'.op = "cleanup"
         => (/\ hvac_telemetry_daily' = hvac_telemetry_daily
             /\ \A h \in hvac_telemetry_hourly :
                   ~(h.pk_hour < HourlyCutoff) => h \in hvac_telemetry_hourly'
             /\ hvac_telemetry_hourly' \subseteq hvac_telemetry_hourly
             /\ hvac_units' = hvac_units
             /\ alerts' = alerts)]_vars

C11_Witness ==
    /\ last.op = "cleanup"
    /\ hvac_telemetry_daily # {}
    /\ \E h \in hvac_telemetry_hourly :
          /\ ~(h.pk_hour < HourlyCutoff)
          /\ HourRows(h.pk_fk_serial_number, h.pk_hour) = {}
    /\ hvac_units["U1"].current_state # NULL
    /\ alerts # {}

\* C15: after a cleanup run at time now no raw row is older than now - 30 days
\* and no hourly rollup older than now - 90 days, and every raw row and hourly
\* rollup at or after its cut-off is still there, unchanged.
C15_CleanupCutoffs ==
    [][last'.op = "cleanup"
         => (/\ \A r \in hvac_telemetry' : r.pk_timestamp >= RawCutoff
             /\ \A h \in hvac_telemetry_hourly' : h.pk_hour >= HourlyCutoff
             /\ \A r \in hvac_telemetry : r.pk_timestamp >= RawCutoff => r \in hvac_telemetry'
             /\ \A h \in hvac_telemetry_hourly :
                   h.pk_hour >= HourlyCutoff => h \in hvac_telemetry_hourly'
             /\ hvac_telemetry' \subseteq hvac_telemetry
             /\ hvac_telemetry_hourly' \subseteq hvac_telemetry_hourly)]_vars

C15_Witness ==
    /\ last.op = "cleanup"
    /\ \E h \in hvac_telemetry_hourly : h.pk_hour = HourlyCutoff
    /\ hvac_units["U1"].last_telemetry_at # NULL
    /\ ~Stored(<<"U1", hvac_units["U1"].last_telemetry_at[1]>>)

\* the unit row of u is that of a unit never reported on, or is derived from
\* one of u's own raw rows
OwnSnapshot(u) ==
    \/ /\ hvac_units[u].current_state = NULL
       /\ hvac_units[u].last_telemetry_at = NULL
       /\ RowsOf(u) = {}
    \/ \E r \in RowsOf(u) :
            /\ ShowsReading(u, r)
            /\ hvac_units[u].uptime_days = r.uptime_days

\* C12: an accepted insert for unit U adds exactly one raw row, a rejected one
\* adds none (so the raw rows count the accepted readings), no step of
\* ingestion for U changes the row of another unit, and every unit's snapshot
\* is derived from one of that unit's own raw rows.
C12_NoCrossUnitInterference ==
    [][/\ last'.op = "insert" =>
            /\ Cardinality(hvac_telemetry') =
                    Cardinality(hvac_telemetry) + (IF last'.outcome = "ok" THEN 1 ELSE 0)
            /\ hvac_telemetry \subseteq hvac_telemetry'
            /\ \A r \in hvac_telemetry' \ hvac_telemetry : KeyOf(r) = last'.key
            /\ \A v \in DOMAIN hvac_units :
                    v # last'.key[1] => hvac_units'[v] = hvac_units[v]
       /\ \A u \in DOMAIN hvac_units : OwnSnapshot(u)']_vars

C12_Witness ==
    /\ last.op = "insert"
    /\ last.outcome = "ok"
    /\ last.key[1] = "U2"
    /\ \E r1 \in RowsOf("U1") : \E r2 \in RowsOf("U2") :
            /\ r1.pk_timestamp # r2.pk_timestamp
            /\ r1.ambient_temp # r2.ambient_temp
            /\ ShowsReading("U1", r1)
            /\ ShowsReading("U2", r2)

\* C14: a step that adds a raw row r sets, in that same step, the unit's
\* current_state to r's fields other than pk_fk_serial_number and pk_timestamp,
\* its last_telemetry_at to r's timestamp and its uptime_days to r's uptime.
C14_SnapshotInSameStep ==
    [][\A r \in hvac_telemetry' \ hvac_telemetry :
          LET unit == hvac_units'[r.pk_fk_serial_number] IN
          /\ unit.current_state =
                <<[ambient_temp |-> r.ambient_temp, uptime_days |-> r.uptime_days]>>
          /\ unit.last_telemetry_at = <<r.pk_timestamp>>
          /\ unit.uptime_days = r.uptime_days]_vars

C14_Witness ==
    /\ last.op = "insert"
    /\ last.outcome = "ok"
    /\ Cardinality(RowsOf(last.key[1])) = 2
    /\ RowAt(last.key).uptime_days = 2
    /\ hvac_units[last.key[1]].uptime_days = 2
    /\ hvac_units[last.key[1]].current_state = <<[ambient_temp |-> 130, uptime_days |-> 2]>>
    /\ hvac_units[last.key[1]].last_telemetry_at = <<last.key[2]>>

HourlyKeysUnique ==
    \A x, y \in hvac_telemetry_hourly :
        (x.pk_fk_serial_number = y.pk_fk_serial_number /\ x.pk_hour = y.pk_hour) => x = y

\* C13: a rollup of a (unit, hour) bucket run again right after a rollup of
\* that bucket, over the same raw rows, leaves the hourly table as it was (same
\* min, max, avg and sample count); a rollup leaves exactly one row for its
\* bucket, whose sample count is the number of the bucket's raw rows.
C13_RollupRerunIdentical ==
    [][/\ HourlyKeysUnique'
       /\ \A u \in Registered, h \in {DateTruncHour(t) : t \in ReadingTimes} :
            (last'.op = "rollup_hourly" /\ last'.key = <<u, h>>) =>
                /\ Cardinality(HourlyRowsAt(u, h)') = 1
                /\ \A x \in HourlyRowsAt(u, h)' :
                        x.sample_count = Cardinality(HourRows(u, h)')
                /\ (/\ last.op = "rollup_hourly"
                    /\ last.key = <<u, h>>
                    /\ hvac_telemetry' = hvac_telemetry)
                        => hvac_telemetry_hourly' = hvac_telemetry_hourly]_vars

C13_Witness ==
    /\ last.op = "rollup_hourly"
    /\ last.outcome = "updated"
    /\ \E x \in HourlyRowsAt(last.key[1], last.key[2]) :
            /\ x.sample_count = 2
            /\ x.sample_count = Cardinality(HourRows(last.key[1], last.key[2]))
            /\ x.metrics.ambient_temp.min < x.metrics.ambient_temp.max
            /\ x.metrics = RawMetrics(HourRows(last.key[1], last.key[2]))

====
